---- MODULE Spec2Model ----
(***************************************************************************)
(* halAncestralAllele: for each reference position of a positions file,    *)
(* infer the ancestral allele from an ordered list of candidate genomes    *)
(* (direct ortholog column, then duplication-enabled column), then from    *)
(* within-species paralogs, and emit one row per position in input order.  *)
(*                                                                         *)
(* The alignment store (HAL) is the environment.  A column query is a      *)
(* slot [genome, pos, dupes]; its answer is either Fail (the query throws) *)
(* or a column, a sequence of entries [genome, pos, base].  The content is *)
(* fixed: an answer, once revealed, is remembered in `store` and every     *)
(* later query of the same slot gets the same answer.                      *)
(***************************************************************************)
EXTENDS Integers, Sequences, FiniteSets, TLC

(***************************************************************************)
(* Bounds of the model.                                                    *)
(***************************************************************************)
MaxCol == 2        \* entries in one alignment column
MaxLines == 2      \* lines of the positions file (batch runs)
MaxVote == 4       \* bases handed to the vote when it is checked alone

RefName == "Ref"
Fail == [ok |-> FALSE, col |-> <<>>]

(***************************************************************************)
(* The reference genome: its sequences with their start offsets, and its   *)
(* DNA (soft-masked lower case at even positions).                         *)
(***************************************************************************)
SequenceNames == {"chr10", "chr2"}

SequenceStart(chrom) == IF chrom = "chr10" THEN 0 ELSE 2

ReferenceBase(pos) == IF pos % 2 = 0 THEN "a" ELSE "C"

(***************************************************************************)
(* Characters.                                                             *)
(***************************************************************************)
ToUpper(c) ==
    CASE c = "a" -> "A"
      [] c = "c" -> "C"
      [] c = "g" -> "G"
      [] c = "t" -> "T"
      [] c = "n" -> "N"
      [] OTHER -> c

CharCode(c) ==
    CASE c = "#" -> 35
      [] c = "-" -> 45
      [] c = "0" -> 48
      [] c = "1" -> 49
      [] c = "2" -> 50
      [] c = "A" -> 65
      [] c = "C" -> 67
      [] c = "G" -> 71
      [] c = "N" -> 78
      [] c = "T" -> 84
      [] c = "U" -> 85
      [] c = "c" -> 99
      [] c = "h" -> 104
      [] c = "n" -> 110
      [] c = "r" -> 114
      [] OTHER -> 0

RECURSIVE StrLessFrom(_, _, _)
StrLessFrom(a, b, k) ==
    IF k > Len(b) THEN FALSE
    ELSE IF k > Len(a) THEN TRUE
    ELSE IF SubSeq(a, k, k) # SubSeq(b, k, k)
         THEN CharCode(SubSeq(a, k, k)) < CharCode(SubSeq(b, k, k))
         ELSE StrLessFrom(a, b, k + 1)

\* std::string operator<
StrLess(a, b) == StrLessFrom(a, b, 1)

\* Position::operator<
PositionLess(x, y) ==
    IF x.chrom # y.chrom THEN StrLess(x.chrom, y.chrom) ELSE x.start < y.start

(***************************************************************************)
(* The positions file.  A line is the sequence of its whitespace-separated *)
(* fields.                                                                 *)
(***************************************************************************)
LineKinds ==
    { <<"chr2", 0, 1>>,       \* sorts after chr10
      <<"chr10", 1, 2>>,
      <<"chr10", 1, 5>>,      \* same (chrom, start) key as the line above
      <<"chrUn", 0, 1>>,      \* no such sequence in the reference genome
      <<"#chr2", 0, 1>>,      \* comment
      <<"chr2", 0>>,          \* malformed: no end field
      <<>> }                  \* blank

\* parseLine
ParseLine(line) ==
    IF line = <<>> \/ SubSeq(line[1], 1, 1) = "#" THEN FALSE
    ELSE Len(line) >= 3

RECURSIVE ReadPositions(_, _)
\* main, first pass: the valid lines, numbered in input order
ReadPositions(ls, acc) ==
    IF ls = <<>> THEN acc
    ELSE IF ~ParseLine(Head(ls)) THEN ReadPositions(Tail(ls), acc)
    ELSE ReadPositions(Tail(ls),
            Append(acc, [chrom |-> Head(ls)[1], start |-> Head(ls)[2],
                         end |-> Head(ls)[3], originalOrder |-> Len(acc)]))

IndexPermutations(n) ==
    { p \in [1..n -> 1..n] : \A a, b \in 1..n : a # b => p[a] # p[b] }

\* what std::sort may leave: any order no later element of which is less
\* than an earlier one (the sort is not stable)
SortedOrders(ps) ==
    { p \in IndexPermutations(Len(ps)) :
        \A a, b \in 1..Len(ps) : a < b => ~PositionLess(ps[p[b]], ps[p[a]]) }

IdentityOrder(n) == [k \in 1..n |-> k]

ProcessingOrders(ps, ns) ==
    IF ns THEN {IdentityOrder(Len(ps))} ELSE SortedOrders(ps)

(***************************************************************************)
(* Alignment columns.                                                      *)
(***************************************************************************)
Slot(g, pos, dupes) == [genome |-> g, pos |-> pos, dupes |-> dupes]

\* the row of the reference sequence itself, which a column always holds
ReferenceRow(pos) ==
    [genome |-> RefName, pos |-> pos, base |-> ReferenceBase(pos)]

\* The entries of target genome g a column at reference position pos may
\* hold: bases of g at other array indices, and a base of g at the array
\* index equal to pos (for g the reference genome that is the query position
\* itself, which the column holds as the reference row).
EntryKinds(g, pos) ==
    <<[genome |-> g, pos |-> pos + 1, base |-> "c"],
      [genome |-> g, pos |-> pos + 1, base |-> "A"],
      [genome |-> g, pos |-> pos + 1, base |-> "-"],
      [genome |-> g, pos |-> pos + 1, base |-> "N"],
      IF g = RefName THEN ReferenceRow(pos)
      ELSE [genome |-> g, pos |-> pos, base |-> "A"]>>

\* columns of at most MaxCol entries of the target genome, one per multiset
Columns(g, pos) ==
    LET kinds == EntryKinds(g, pos)
        shapes == UNION { [1..n -> 1..Len(kinds)] : n \in 0..MaxCol }
    IN  { (IF g = RefName THEN <<>> ELSE <<ReferenceRow(pos)>>)
          \o [k \in 1..Len(s) |-> kinds[s[k]]] :
            s \in { t \in shapes : \A a, b \in 1..Len(t) : a < b => t[a] <= t[b] } }

Answers(g, pos) == { [ok |-> TRUE, col |-> c] : c \in Columns(g, pos) } \cup {Fail}

(***************************************************************************)
(* Base collection and the consensus rule.                                 *)
(***************************************************************************)
\* the entries of the column whose sequence belongs to the target genome
OwnEntries(col, tgtGenome) == SelectSeq(col, LAMBDA e : e.genome = tgtGenome)

BasesOf(entries) == [k \in 1..Len(entries) |-> ToUpper(entries[k].base)]

\* findAncestralAllele step 1: every base of the target genome, unfiltered
DirectEntries(col, tgtGenome) == OwnEntries(col, tgtGenome)

\* findParalogsInGenome: the query position itself is skipped in a
\* within-species search
SkipsQueryPosition(refGenome, tgtGenome, foundPos, pos) ==
    refGenome = tgtGenome /\ foundPos = pos

\* a base that is counted: neither unknown nor gap
Countable(b) == b # "N" /\ b # "-"

\* findParalogsInGenome: the entries whose base is pushed; a failed query
\* (caught) pushes none
ParalogEntries(refGenome, pos, tgtGenome, answer) ==
    IF pos < 0 \/ ~answer.ok THEN <<>>
    ELSE SelectSeq(OwnEntries(answer.col, tgtGenome),
            LAMBDA e : /\ ~SkipsQueryPosition(refGenome, tgtGenome, e.pos, pos)
                       /\ Countable(ToUpper(e.base)))

\* variant: step 2 is taken whenever step 1 pushed nothing countable
NeedsParalogsUncounted(bs) == \A k \in 1..Len(bs) : ~Countable(bs[k])

\* step 2 is taken when step 1 pushed no base at all
NeedsParalogs(bs) == bs = <<>>

\* the counting loop: map<char,int> counts over the countable bases
CountBases(bs) ==
    LET keys == { bs[k] : k \in { j \in 1..Len(bs) : Countable(bs[j]) } }
    IN  [b \in keys |-> Cardinality({ k \in 1..Len(bs) : bs[k] = b })]

RECURSIVE SumCounts(_, _)
SumCounts(counts, keys) ==
    IF keys = {} THEN 0
    ELSE LET b == CHOOSE x \in keys : TRUE
         IN  counts[b] + SumCounts(counts, keys \ {b})

Total(counts) == SumCounts(counts, DOMAIN counts)

RECURSIVE SortedKeysOf(_)
\* iteration order of std::map<char,int>: ascending character
SortedKeysOf(keys) ==
    IF keys = {} THEN <<>>
    ELSE LET m == CHOOSE x \in keys :
                    \A y \in keys : CharCode(x) <= CharCode(y)
         IN  <<m>> \o SortedKeysOf(keys \ {m})

SortedKeys(counts) == SortedKeysOf(DOMAIN counts)

RECURSIVE MajorityScan(_, _, _, _)
\* "find majority and detect ties": one pass over the map
MajorityScan(counts, keys, k, acc) ==
    IF k > Len(keys) THEN acc
    ELSE LET n == counts[keys[k]]
         IN  IF n > acc.majCount
             THEN MajorityScan(counts, keys, k + 1,
                     [maj |-> keys[k], majCount |-> n, tie |-> FALSE])
             ELSE IF n = acc.majCount
             THEN MajorityScan(counts, keys, k + 1,
                     [maj |-> acc.maj, majCount |-> acc.majCount, tie |-> TRUE])
             ELSE MajorityScan(counts, keys, k + 1, acc)

RECURSIVE MajorityScanNoReset(_, _, _, _)
MajorityScanNoReset(counts, keys, k, acc) ==
    IF k > Len(keys) THEN acc
    ELSE LET n == counts[keys[k]]
         IN  IF n > acc.majCount
             THEN MajorityScanNoReset(counts, keys, k + 1,
                     [maj |-> keys[k], majCount |-> n, tie |-> acc.tie])
             ELSE IF n = acc.majCount
             THEN MajorityScanNoReset(counts, keys, k + 1,
                     [maj |-> acc.maj, majCount |-> acc.majCount, tie |-> TRUE])
             ELSE MajorityScanNoReset(counts, keys, k + 1, acc)

\* variant: a new leader does not clear the tie flag
MajorityNoReset(counts) ==
    MajorityScanNoReset(counts, SortedKeys(counts), 1,
                        [maj |-> "N", majCount |-> 0, tie |-> FALSE])

Majority(counts) ==
    MajorityScan(counts, SortedKeys(counts), 1,
                 [maj |-> "N", majCount |-> 0, tie |-> FALSE])

RECURSIVE InfoFrom(_, _, _)
InfoFrom(counts, keys, k) ==
    IF k > Len(keys) THEN ""
    ELSE (IF k > 1 THEN "," ELSE "")
         \o keys[k] \o "=" \o ToString(counts[keys[k]])
         \o InfoFrom(counts, keys, k + 1)

\* the breakdown "A=2,C=1"
Info(counts) == InfoFrom(counts, SortedKeys(counts), 1)

\* variant: the suffix is built for a single candidate too
SourceInfoAlways(ancestorNames, ancestorIdx) ==
    "@" \o ancestorNames[ancestorIdx + 1]
    \o (IF ancestorIdx > 0
        THEN "(fallback:" \o ToString(ancestorIdx) \o ")" ELSE "")

\* "@<name>" and "(fallback:<idx>)"; ancestorIdx counts from 0
SourceInfo(ancestorNames, ancestorIdx) ==
    IF Len(ancestorNames) > 1
    THEN "@" \o ancestorNames[ancestorIdx + 1]
         \o (IF ancestorIdx > 0
             THEN "(fallback:" \o ToString(ancestorIdx) \o ")" ELSE "")
    ELSE ""

MethodInfo(usedParalogs) == IF usedParalogs THEN "AncestralParalog" ELSE "Direct"

VoteType(usedParalogs) ==
    IF usedParalogs THEN "AncestralParalogVote:" ELSE "MajorityVote:"

\* the tie tag does not look at foundParalogs
TieTag == "AncestralParalogTie:"

\* the call made from a candidate's counts (total > 0)
CandidateCall(counts, ancestorNames, ancestorIdx, usedParalogs) ==
    LET sourceInfo == SourceInfo(ancestorNames, ancestorIdx)
        m == Majority(counts)
    IN  IF Total(counts) = 1
        THEN [ancAllele |-> SortedKeys(counts)[1],
              evidence |-> MethodInfo(usedParalogs) \o sourceInfo,
              usedAncestor |-> ancestorNames[ancestorIdx + 1]]
        ELSE IF m.tie
        THEN [ancAllele |-> "N",
              evidence |-> TieTag \o Info(counts) \o sourceInfo,
              usedAncestor |-> ancestorNames[ancestorIdx + 1]]
        ELSE [ancAllele |-> m.maj,
              evidence |-> VoteType(usedParalogs) \o Info(counts) \o sourceInfo,
              usedAncestor |-> ancestorNames[ancestorIdx + 1]]

\* variant: the within-species call has no tie branch
WithinSpeciesCallNoTie(counts) ==
    IF Total(counts) = 1
    THEN [ancAllele |-> SortedKeys(counts)[1],
          evidence |-> "WithinSpeciesParalog",
          usedAncestor |-> "WithinSpecies"]
    ELSE [ancAllele |-> Majority(counts).maj,
          evidence |-> "WithinSpeciesParalogVote:" \o Info(counts),
          usedAncestor |-> "WithinSpecies"]

\* the call made from the within-species paralogs (total > 0)
WithinSpeciesCall(counts) ==
    LET m == Majority(counts)
    IN  IF Total(counts) = 1
        THEN [ancAllele |-> SortedKeys(counts)[1],
              evidence |-> "WithinSpeciesParalog",
              usedAncestor |-> "WithinSpecies"]
        ELSE IF m.tie
        THEN [ancAllele |-> "N",
              evidence |-> "WithinSpeciesParalogTie:" \o Info(counts),
              usedAncestor |-> "WithinSpecies"]
        ELSE [ancAllele |-> m.maj,
              evidence |-> "WithinSpeciesParalogVote:" \o Info(counts),
              usedAncestor |-> "WithinSpecies"]

\* variant: the number of candidates is reported for a single one too
MissingCallAlwaysTried(ancestorNames) ==
    [ancAllele |-> "N",
     evidence |-> "Missing(tried:" \o ToString(Len(ancestorNames)) \o "+self)",
     usedAncestor |-> IF ancestorNames = <<>> THEN "Unknown" ELSE ancestorNames[1]]

\* "truly no allele found anywhere"
MissingCall(ancestorNames) ==
    [ancAllele |-> "N",
     evidence |-> IF Len(ancestorNames) > 1
                  THEN "Missing(tried:" \o ToString(Len(ancestorNames)) \o "+self)"
                  ELSE "Missing(+self)",
     usedAncestor |-> IF ancestorNames = <<>> THEN "Unknown" ELSE ancestorNames[1]]

\* one output record: the tab-separated fields
Row(pos, rb, call) ==
    <<pos.chrom, ToString(pos.start), ToString(pos.end), rb,
      call.usedAncestor, call.ancAllele, call.evidence>>

\* the row of a position whose chromosome the reference genome lacks
MissingSequenceRow(pos, usedGenome) ==
    <<pos.chrom, ToString(pos.start), ToString(pos.end), "N",
      usedGenome, "N", "Missing">>

(***************************************************************************)
(* State.                                                                  *)
(***************************************************************************)
VARIABLES
    lines,            \* the positions file
    genomeNames,      \* the candidate genomes, in command-line order
    noSort,           \* the noSort flag
    store,            \* the alignment content revealed so far: slot -> answer
    positions,        \* vector<Position>
    processingOrder,  \* vector<size_t>, indices from 1
    results,          \* vector<string>, one slot per position
    i,                \* index of the processing loop, from 0
    pc,               \* where main is
    absStart,         \* findAncestralAllele: the absolute reference position
    refBase,
    ancestorIdx,      \* index of the candidate being tried, from 0
    bases,            \* vector<char> of the candidate (or refParalogs)
    taken,            \* history: the entries the bases were read from
    foundParalogs,
    ancAllele,
    evidence,
    usedAncestor,
    trace,            \* history: queries and counts of the current position
    resolved,         \* history: absolute position -> fields 4..7 of its row
    output,           \* the rows written to the output file
    exitCode

vars == <<lines, genomeNames, noSort, store, positions, processingOrder,
          results, i, pc, absStart, refBase, ancestorIdx, bases, taken,
          foundParalogs, ancAllele, evidence, usedAncestor, trace, resolved,
          output, exitCode>>

input == <<lines, genomeNames, noSort>>
locals == <<absStart, refBase, ancestorIdx, bases, taken, foundParalogs,
            ancAllele, evidence, usedAncestor, trace>>
call == <<ancAllele, evidence, usedAncestor>>
batch == <<positions, processingOrder, results, i, resolved, output, exitCode>>

EmptyStore == [s \in {} |-> Fail]

\* the targetGenome argument: one genome, or an ordered list of them
CandidateLists ==
    { <<"G1">>, <<"Ref">>,
      <<"G1", "G2">>, <<"G1", "Ref">>, <<"Ref", "G1">>,
      <<"G1", "G2", "Ref">> }

Start(ls, st, ns) ==
    /\ lines = ls
    /\ store = st
    /\ genomeNames \in CandidateLists
    /\ noSort = ns
    /\ positions = <<>>
    /\ processingOrder = <<>>
    /\ results = <<>>
    /\ i = 0
    /\ pc = "read"
    /\ absStart = 0
    /\ refBase = ""
    /\ ancestorIdx = 0
    /\ bases = <<>>
    /\ taken = <<>>
    /\ foundParalogs = FALSE
    /\ ancAllele = ""
    /\ evidence = ""
    /\ usedAncestor = ""
    /\ trace = <<>>
    /\ resolved = [p \in {} |-> <<>>]
    /\ output = <<>>
    /\ exitCode = -1

\* one position, any alignment content
Init ==
    \E l \in {<<"chr2", 0, 1>>, <<"chrUn", 0, 1>>, <<"#chr2", 0, 1>>} :
        Start(<<l>>, EmptyStore, FALSE)

(***************************************************************************)
(* The store.                                                              *)
(***************************************************************************)
\* what a query of the slot may return: the content is fixed once revealed
Reveal(slot) ==
    IF slot \in DOMAIN store THEN {store[slot]}
    ELSE Answers(slot.genome, slot.pos)

Remember(slot, answer) ==
    [s \in DOMAIN store \cup {slot} |-> IF s = slot THEN answer ELSE store[s]]

Event(kind, idx, answer, entries, total) ==
    [kind |-> kind, idx |-> idx, answer |-> answer, taken |-> entries,
     total |-> total]

(***************************************************************************)
(* main                                                                    *)
(***************************************************************************)
\* first pass: read all positions; none valid: return 1
ReadPositionsFile ==
    /\ pc = "read"
    /\ positions' = ReadPositions(lines, <<>>)
    /\ IF positions' = <<>>
       THEN pc' = "exit" /\ exitCode' = 1
       ELSE pc' = "order" /\ UNCHANGED exitCode
    /\ UNCHANGED <<input, store, processingOrder, results, i, locals,
                   resolved, output>>

\* the processing order, and the results buffer
BuildProcessingOrder ==
    /\ pc = "order"
    /\ processingOrder' \in ProcessingOrders(positions, noSort)
    /\ results' = [k \in 1..Len(positions) |-> <<>>]
    /\ i' = 0
    /\ pc' = "loop"
    /\ UNCHANGED <<input, store, positions, locals, resolved, output, exitCode>>

CurrentIdx == processingOrder[i + 1]

\* the reference genome has no such sequence: a Missing row, no query
MissingSequence ==
    /\ pc = "loop"
    /\ i < Len(processingOrder)
    /\ positions[CurrentIdx].chrom \notin SequenceNames
    /\ results' = [results EXCEPT
                     ![CurrentIdx] = MissingSequenceRow(positions[CurrentIdx],
                                                        genomeNames[1])]
    /\ i' = i + 1
    /\ UNCHANGED <<input, store, positions, processingOrder, pc, locals,
                   resolved, output, exitCode>>

\* the absolute coordinate and the reference base; findAncestralAllele begins
BeginPosition ==
    /\ pc = "loop"
    /\ i < Len(processingOrder)
    /\ positions[CurrentIdx].chrom \in SequenceNames
    /\ absStart' = SequenceStart(positions[CurrentIdx].chrom)
                     + positions[CurrentIdx].start
    /\ refBase' = ToUpper(ReferenceBase(absStart'))
    /\ ancAllele' = "N"
    /\ evidence' = "Missing"
    /\ usedAncestor' = ""
    /\ ancestorIdx' = 0
    /\ trace' = <<>>
    /\ pc' = "candidate"
    /\ UNCHANGED <<input, store, batch, bases, taken, foundParalogs>>

(***************************************************************************)
(* findAncestralAllele                                                     *)
(***************************************************************************)
TgtGenome == genomeNames[ancestorIdx + 1]

\* step 1: the column without duplications; every base of the target
DirectQuery ==
    /\ pc = "candidate"
    /\ ancestorIdx < Len(genomeNames)
    /\ \E answer \in Reveal(Slot(TgtGenome, absStart, FALSE)) :
        /\ answer.ok
        /\ store' = Remember(Slot(TgtGenome, absStart, FALSE), answer)
        /\ taken' = DirectEntries(answer.col, TgtGenome)
        /\ bases' = BasesOf(taken')
        /\ trace' = Append(trace,
                      Event("direct", ancestorIdx, answer, taken', -1))
    /\ foundParalogs' = FALSE
    /\ pc' = IF NeedsParalogs(bases') THEN "paralog" ELSE "count"
    /\ UNCHANGED <<input, batch, absStart, refBase, ancestorIdx, call>>

\* step 1 throws: nothing catches it before main's handler, which returns 1
\* for a hal_exception; any other exception terminates the process (SIGABRT).
\* Either way the results buffer is never written out.
DirectQueryThrows ==
    /\ pc = "candidate"
    /\ ancestorIdx < Len(genomeNames)
    /\ \E answer \in Reveal(Slot(TgtGenome, absStart, FALSE)) :
        /\ ~answer.ok
        /\ store' = Remember(Slot(TgtGenome, absStart, FALSE), answer)
        /\ trace' = Append(trace,
                      Event("direct", ancestorIdx, answer, <<>>, -1))
    /\ pc' = "exit"
    /\ exitCode' \in {1, 134}
    /\ UNCHANGED <<input, positions, processingOrder, results, i, resolved,
                   output, absStart, refBase, ancestorIdx, bases, taken,
                   foundParalogs, call>>

\* step 2: no direct base at all: findParalogsInGenome on the same target
ParalogQuery ==
    /\ pc = "paralog"
    /\ \E answer \in Reveal(Slot(TgtGenome, absStart, TRUE)) :
        /\ store' = Remember(Slot(TgtGenome, absStart, TRUE), answer)
        /\ taken' = ParalogEntries(RefName, absStart, TgtGenome, answer)
        /\ trace' = Append(trace,
                      Event("paralog", ancestorIdx, answer, taken', -1))
    /\ bases' = bases \o BasesOf(taken')
    /\ foundParalogs' = (taken' # <<>>)
    /\ pc' = "count"
    /\ UNCHANGED <<input, batch, absStart, refBase, ancestorIdx, call>>

\* variant: a call does not end the loop over the candidates before the
\* last one
CountCandidateNoReturn ==
    /\ pc = "count"
    /\ LET counts == CountBases(bases)
           total == Total(counts)
       IN  /\ trace' = Append(trace,
                         Event("count", ancestorIdx, Fail, taken, total))
           /\ IF bases # <<>> /\ total > 0
              THEN LET c == CandidateCall(counts, genomeNames, ancestorIdx,
                                          foundParalogs)
                   IN  /\ ancAllele' = c.ancAllele
                       /\ evidence' = c.evidence
                       /\ usedAncestor' = c.usedAncestor
              ELSE UNCHANGED call
           /\ IF bases # <<>> /\ total > 0 /\ ancestorIdx + 1 = Len(genomeNames)
              THEN /\ pc' = "found"
                   /\ UNCHANGED <<ancestorIdx, bases, taken, foundParalogs>>
              ELSE /\ ancestorIdx' = ancestorIdx + 1
                   /\ bases' = <<>>
                   /\ taken' = <<>>
                   /\ foundParalogs' = FALSE
                   /\ pc' = "candidate"
    /\ UNCHANGED <<input, store, batch, absStart, refBase>>

\* count the candidate's bases; a total > 0 is the call, else the next one
CountCandidate ==
    /\ pc = "count"
    /\ LET counts == CountBases(bases)
           total == Total(counts)
       IN  /\ trace' = Append(trace,
                         Event("count", ancestorIdx, Fail, taken, total))
           /\ IF bases # <<>> /\ total > 0
              THEN LET c == CandidateCall(counts, genomeNames, ancestorIdx,
                                          foundParalogs)
                   IN  /\ ancAllele' = c.ancAllele
                       /\ evidence' = c.evidence
                       /\ usedAncestor' = c.usedAncestor
                       /\ pc' = "found"
                       /\ UNCHANGED <<ancestorIdx, bases, taken, foundParalogs>>
              ELSE /\ ancestorIdx' = ancestorIdx + 1
                   /\ bases' = <<>>
                   /\ taken' = <<>>
                   /\ foundParalogs' = FALSE
                   /\ pc' = "candidate"
                   /\ UNCHANGED call
    /\ UNCHANGED <<input, store, batch, absStart, refBase>>

\* step 3: every candidate tried: paralogs within the reference genome,
\* and failing that the Missing call
WithinSpeciesSearch ==
    /\ pc = "candidate"
    /\ ancestorIdx = Len(genomeNames)
    /\ \E answer \in Reveal(Slot(RefName, absStart, TRUE)) :
        /\ store' = Remember(Slot(RefName, absStart, TRUE), answer)
        /\ taken' = ParalogEntries(RefName, absStart, RefName, answer)
        /\ bases' = BasesOf(taken')
        /\ foundParalogs' = (taken' # <<>>)
        /\ LET counts == CountBases(bases')
               c == IF foundParalogs' /\ bases' # <<>> /\ Total(counts) > 0
                    THEN WithinSpeciesCall(counts)
                    ELSE MissingCall(genomeNames)
           IN  /\ ancAllele' = c.ancAllele
               /\ evidence' = c.evidence
               /\ usedAncestor' = c.usedAncestor
               /\ trace' = Append(trace,
                             Event("self", ancestorIdx, answer, taken',
                                   Total(counts)))
    /\ pc' = "found"
    /\ UNCHANGED <<input, batch, absStart, refBase, ancestorIdx>>

CurrentCall ==
    [ancAllele |-> ancAllele, evidence |-> evidence,
     usedAncestor |-> usedAncestor]

\* back in main: the row goes to the slot of the position's original index
StoreResult ==
    /\ pc = "found"
    /\ results' = [results EXCEPT
                     ![CurrentIdx] = Row(positions[CurrentIdx], refBase,
                                         CurrentCall)]
    /\ resolved' = [p \in DOMAIN resolved \cup {absStart} |->
                      IF p = absStart
                      THEN <<refBase, usedAncestor, ancAllele, evidence>>
                      ELSE resolved[p]]
    /\ i' = i + 1
    /\ pc' = "loop"
    /\ absStart' = 0
    /\ refBase' = ""
    /\ ancestorIdx' = 0
    /\ bases' = <<>>
    /\ taken' = <<>>
    /\ foundParalogs' = FALSE
    /\ ancAllele' = ""
    /\ evidence' = ""
    /\ usedAncestor' = ""
    /\ trace' = <<>>
    /\ UNCHANGED <<input, store, positions, processingOrder, output, exitCode>>

\* "output results in original order"; return 0
EmitResults ==
    /\ pc = "loop"
    /\ i = Len(processingOrder)
    /\ output' = results
    /\ pc' = "exit"
    /\ exitCode' = 0
    /\ UNCHANGED <<input, store, positions, processingOrder, results, i,
                   resolved, locals>>

Next ==
    \/ ReadPositionsFile
    \/ BuildProcessingOrder
    \/ MissingSequence
    \/ BeginPosition
    \/ DirectQuery
    \/ DirectQueryThrows
    \/ ParalogQuery
    \/ CountCandidate
    \/ WithinSpeciesSearch
    \/ StoreResult
    \/ EmitResults

Spec == Init /\ [][Next]_vars

(***************************************************************************)
(* Whole alignments, for runs over several positions: the content is known *)
(* from the start.                                                         *)
(***************************************************************************)
Slots ==
    { Slot(g, pos, d) : g \in {"G1", "G2", RefName}, pos \in {1, 2},
                        d \in BOOLEAN }

\* a column of genome g holding the bases bs, at array indices after pos
ColumnOf(g, pos, bs) ==
    [ok |-> TRUE,
     col |-> (IF g = RefName THEN <<>> ELSE <<ReferenceRow(pos)>>)
             \o [k \in 1..Len(bs) |-> [genome |-> g, pos |-> pos + k,
                                       base |-> bs[k]]]]

\* position 1 has a direct ortholog everywhere; position 2 only paralogs
HealthyAlignment ==
    [s \in Slots |->
        IF s.pos = 1
        THEN ColumnOf(s.genome, 1, IF s.dupes THEN <<>> ELSE <<"c">>)
        ELSE IF ~s.dupes
        THEN ColumnOf(s.genome, 2, IF s.genome = "G2" THEN <<"-">> ELSE <<>>)
        ELSE ColumnOf(s.genome, 2,
                CASE s.genome = "G1" -> <<"c", "A", "c">>
                  [] s.genome = RefName -> <<"A", "c">>
                  [] OTHER -> <<>>)]

\* every duplication-enabled query of a candidate fails
BrokenParalogAlignment ==
    [s \in Slots |->
        IF ~s.dupes
        THEN ColumnOf(s.genome, s.pos, IF s.pos = 1 THEN <<>> ELSE <<"N">>)
        ELSE IF s.genome = RefName /\ s.pos = 2
        THEN ColumnOf(RefName, 2, <<"A">>)
        ELSE Fail]

\* the direct query fails at position 2
BrokenDirectAlignment ==
    [s \in Slots |->
        IF s.pos = 2 /\ ~s.dupes THEN Fail ELSE HealthyAlignment[s]]

Alignments == {HealthyAlignment, BrokenParalogAlignment, BrokenDirectAlignment}

PositionFiles == UNION { [1..n -> LineKinds] : n \in 1..MaxLines }

\* a positions file of several lines, over a known alignment
InitBatch ==
    \E ls \in PositionFiles, st \in Alignments, ns \in BOOLEAN :
        Start(ls, st, ns)

SpecBatch == InitBatch /\ [][Next]_vars

(***************************************************************************)
(* Alignments with one long column, in any order of its bases, for the     *)
(* consensus rule: in the direct column of G1, in its duplication-enabled  *)
(* column, or among the within-species paralogs.                           *)
(***************************************************************************)
VoteColumns == UNION { [1..n -> {"A", "C", "G", "-"}] : n \in 1..MaxVote }

VoteAlignment(bs, where) ==
    [s \in Slots |->
        IF s.pos = 2 /\ where = "broken" /\ s.genome = "G2" THEN Fail
        ELSE IF /\ s.pos = 2
                /\ \/ where = "direct" /\ s.genome = "G1" /\ ~s.dupes
                   \/ where = "paralog" /\ s.genome = "G1" /\ s.dupes
                   \/ where \in {"self", "broken"} /\ s.genome = RefName
                                                  /\ s.dupes
        THEN ColumnOf(s.genome, s.pos, bs)
        ELSE ColumnOf(s.genome, s.pos, <<>>)]

InitVote ==
    \E l \in {<<"chr2", 0, 1>>, <<"chrUn", 0, 1>>, <<>>},
       bs \in VoteColumns,
       where \in {"direct", "paralog", "self", "broken"} :
        Start(<<l>>, VoteAlignment(bs, where), FALSE)

SpecVote == InitVote /\ [][Next]_vars

(***************************************************************************)
(* Reading the state: strings, the counted bases, the trace.               *)
(***************************************************************************)
StartsWith(s, p) == Len(s) >= Len(p) /\ SubSeq(s, 1, Len(p)) = p

EndsWith(s, p) ==
    Len(s) >= Len(p) /\ SubSeq(s, Len(s) - Len(p) + 1, Len(s)) = p

Contains(s, p) ==
    \E k \in 1..(Len(s) - Len(p) + 1) : SubSeq(s, k, k + Len(p) - 1) = p

Letters == <<"A", "C", "G", "T">>

Occurrences(bs, b) == Cardinality({ k \in 1..Len(bs) : bs[k] = b })

CountedTotal(bs) ==
    Occurrences(bs, "A") + Occurrences(bs, "C") + Occurrences(bs, "G")
    + Occurrences(bs, "T")

\* the bases that attain the highest count
Tops(bs) ==
    { b \in {"A", "C", "G", "T"} :
        /\ Occurrences(bs, b) > 0
        /\ \A c \in {"A", "C", "G", "T"} :
              Occurrences(bs, c) <= Occurrences(bs, b) }

RECURSIVE BreakdownFrom(_, _, _)
BreakdownFrom(bs, k, first) ==
    IF k > Len(Letters) THEN ""
    ELSE IF Occurrences(bs, Letters[k]) = 0 THEN BreakdownFrom(bs, k + 1, first)
    ELSE (IF first THEN "" ELSE ",") \o Letters[k] \o "="
         \o ToString(Occurrences(bs, Letters[k]))
         \o BreakdownFrom(bs, k + 1, FALSE)

\* "A=2,C=1": the counts in the order of the base characters
Breakdown(bs) == BreakdownFrom(bs, 1, TRUE)

LastEvent == trace[Len(trace)]

\* the call of the current position was made from a candidate's bases
FromCandidate == pc = "found" /\ LastEvent.kind = "count"

\* it was made by the within-species search (a call or Missing)
FromSelf == pc = "found" /\ LastEvent.kind = "self"

EventsOf(kind, idx) ==
    { k \in 1..Len(trace) : trace[k].kind = kind /\ trace[k].idx = idx }

RECURSIVE TakenBy(_, _)
\* the entries the queries of candidate idx pushed, in query order
TakenBy(tr, idx) ==
    IF tr = <<>> THEN <<>>
    ELSE (IF Head(tr).kind \in {"direct", "paralog"} /\ Head(tr).idx = idx
          THEN Head(tr).taken ELSE <<>>)
         \o TakenBy(Tail(tr), idx)

\* the number of bases of the target genome in a query's answer
RawBases(ev, g) ==
    IF ev.answer.ok
    THEN Cardinality({ k \in 1..Len(ev.answer.col) : ev.answer.col[k].genome = g })
    ELSE 0

TieOrMissing(ev) == Contains(ev, "Tie:") \/ StartsWith(ev, "Missing")

(***************************************************************************)
(* C2: the candidates are tried strictly in the configured order and the   *)
(* search stops at the first whose counted total is > 0: that candidate    *)
(* alone supplies the counted bases, usedAncestor is its name, a winner at *)
(* index idx > 0 is tagged "(fallback:<idx>)", no later candidate is       *)
(* queried and no earlier one is queried again.                            *)
(***************************************************************************)
C2_FirstCandidateWins ==
    FromCandidate =>
        LET w == ancestorIdx
            n == Len(trace)
        IN  /\ trace[n].idx = w
            /\ trace[n].total > 0
            /\ \A k \in 1..(n - 1) : trace[k].kind = "count" => trace[k].total = 0
            /\ \A k \in 1..n : trace[k].idx <= w /\ trace[k].kind # "self"
            /\ \A j, k \in 1..n : j < k => trace[j].idx <= trace[k].idx
            /\ \A c \in 0..w :
                  /\ Cardinality(EventsOf("direct", c)) = 1
                  /\ Cardinality(EventsOf("paralog", c)) <= 1
                  /\ Cardinality(EventsOf("count", c)) = 1
            /\ bases = BasesOf(TakenBy(trace, w))
            /\ CountedTotal(bases) = trace[n].total
            /\ ancAllele # "N" => ancAllele \in Tops(bases)
            /\ usedAncestor = genomeNames[w + 1]
            /\ w > 0 => Contains(evidence, "(fallback:" \o ToString(w) \o ")")
            /\ w = 0 => ~Contains(evidence, "(fallback:")

\* the second of three candidates wins after the first yielded nothing
C2_Witness ==
    /\ FromCandidate
    /\ Len(genomeNames) = 3
    /\ ancestorIdx = 1
    /\ usedAncestor = "G2"
    /\ Contains(evidence, "(fallback:1)")

(***************************************************************************)
(* C3: for a BaseCount with total > 1 the result is a tie (allele N, the   *)
(* evidence "...Tie:" followed by the base=count breakdown in base order)  *)
(* exactly when two or more bases attain the maximum count, and otherwise  *)
(* the allele is the one base with the strictly highest count; the allele  *)
(* is N exactly when the evidence is a tie or a missing call.              *)
(***************************************************************************)
C3_TieRule ==
    /\ (pc = "found" /\ CountedTotal(bases) > 1) =>
          /\ Cardinality(Tops(bases)) >= 2 <=>
                (ancAllele = "N"
                 /\ Contains(evidence, "Tie:" \o Breakdown(bases)))
          /\ Cardinality(Tops(bases)) >= 2 <=> Contains(evidence, "Tie:")
          /\ Cardinality(Tops(bases)) = 1 => Tops(bases) = {ancAllele}
    /\ pc = "found" => (ancAllele = "N" <=> TieOrMissing(evidence))
    /\ \A k \in 1..Len(results) :
          results[k] # <<>> => (results[k][6] = "N" <=> TieOrMissing(results[k][7]))

\* the counts {A:2, C:2}
C3_Witness ==
    /\ pc = "found"
    /\ ancAllele = "N"
    /\ Contains(evidence, "Tie:A=2,C=2")

(***************************************************************************)
(* C6: when no candidate and no within-species paralog yields a countable  *)
(* base the result is allele N, usedAncestor the first candidate's name    *)
(* and evidence "Missing(tried:<k>+self)" for k > 1 candidates or          *)
(* "Missing(+self)" for one; and only then.                                *)
(***************************************************************************)
NothingFound ==
    /\ pc = "found"
    /\ \A c \in 0..(Len(genomeNames) - 1) :
          \E k \in EventsOf("count", c) : trace[k].total = 0
    /\ LastEvent.kind = "self"
    /\ CountedTotal(BasesOf(LastEvent.taken)) = 0

C6_ExhaustiveMissing ==
    /\ NothingFound =>
          /\ ancAllele = "N"
          /\ usedAncestor = genomeNames[1]
          /\ evidence = IF Len(genomeNames) > 1
                        THEN "Missing(tried:" \o ToString(Len(genomeNames))
                             \o "+self)"
                        ELSE "Missing(+self)"
    /\ (pc = "found" /\ StartsWith(evidence, "Missing")) => NothingFound

\* two candidates and the reference genome all come up empty
C6_Witness ==
    /\ NothingFound
    /\ Len(genomeNames) = 2
    /\ evidence = "Missing(tried:2+self)"

(***************************************************************************)
(* C9: the within-species search is made exactly when every candidate      *)
(* yielded total = 0, and after all of them; a total > 0 there gives       *)
(* usedAncestor "WithinSpecies" and evidence "WithinSpeciesParalog",       *)
(* "WithinSpeciesParalogVote:..." or "WithinSpeciesParalogTie:..."; no     *)
(* other result has usedAncestor "WithinSpecies".                          *)
(***************************************************************************)
AllCandidatesEmpty ==
    \A c \in 0..(Len(genomeNames) - 1) :
        \E k \in EventsOf("count", c) : trace[k].total = 0

C9_WithinSpeciesLast ==
    /\ \A k \in 1..Len(trace) :
          trace[k].kind = "self" =>
             /\ k = Len(trace)
             /\ AllCandidatesEmpty
             /\ \A j \in 1..(k - 1) : trace[j].idx < Len(genomeNames)
             /\ \A j, l \in 1..(k - 1) : j < l => trace[j].idx <= trace[l].idx
    /\ pc = "found" => (LastEvent.kind = "self" <=> AllCandidatesEmpty)
    /\ (FromSelf /\ CountedTotal(bases) > 0) =>
          /\ usedAncestor = "WithinSpecies"
          /\ CountedTotal(bases) = 1 =>
                evidence = "WithinSpeciesParalog" /\ Tops(bases) = {ancAllele}
          /\ (CountedTotal(bases) > 1 /\ Cardinality(Tops(bases)) = 1) =>
                /\ evidence = "WithinSpeciesParalogVote:" \o Breakdown(bases)
                /\ Tops(bases) = {ancAllele}
          /\ (CountedTotal(bases) > 1 /\ Cardinality(Tops(bases)) > 1) =>
                /\ evidence = "WithinSpeciesParalogTie:" \o Breakdown(bases)
                /\ ancAllele = "N"
    /\ (pc = "found" /\ usedAncestor = "WithinSpecies") =>
          FromSelf /\ CountedTotal(bases) > 0

\* after two empty candidates the reference's own paralogs tie
C9_Witness ==
    /\ FromSelf
    /\ Len(genomeNames) = 2
    /\ usedAncestor = "WithinSpecies"
    /\ evidence = "WithinSpeciesParalogTie:A=1,C=1"

(***************************************************************************)
(* C10: for each candidate tried, the duplication-enabled query is made,   *)
(* before the candidate is given up, exactly when its direct query yields  *)
(* zero bases; a candidate is passed over only when neither query          *)
(* contributed a countable base, which includes the candidate whose direct *)
(* query returned only gap/unknown symbols (no paralog query is made for   *)
(* it, the direct query having yielded bases).                             *)
(***************************************************************************)
C10_ParalogAfterEmptyDirect ==
    \A k \in 1..Len(trace) :
        LET ev == trace[k]
            g == genomeNames[ev.idx + 1]
        IN  /\ ev.kind = "paralog" =>
                 \E d \in EventsOf("direct", ev.idx) :
                    d < k /\ RawBases(trace[d], g) = 0
            /\ ev.kind = "count" =>
                 \E d \in EventsOf("direct", ev.idx) :
                    /\ d < k
                    /\ RawBases(trace[d], g) = 0 <=>
                          \E q \in EventsOf("paralog", ev.idx) : d < q /\ q < k
            /\ (ev.kind = "count" /\ (k < Len(trace) \/ ancestorIdx > ev.idx)) =>
                 /\ ev.total = 0
                 /\ \A j \in 1..(k - 1) :
                       trace[j].idx = ev.idx =>
                          CountedTotal(BasesOf(trace[j].taken)) = 0

\* the first candidate's direct column is empty and so is its paralog
\* column; the second candidate's direct column holds only a gap, and it is
\* passed over without a paralog query
C10_Witness ==
    /\ Len(genomeNames) = 3
    /\ ancestorIdx = 2
    /\ \E d \in EventsOf("direct", 0) : RawBases(trace[d], genomeNames[1]) = 0
    /\ EventsOf("paralog", 0) # {}
    /\ \E d \in EventsOf("direct", 1) :
          /\ RawBases(trace[d], genomeNames[2]) = 1
          /\ BasesOf(trace[d].taken) = <<"-">>
    /\ EventsOf("paralog", 1) = {}
    /\ EventsOf("count", 1) # {}

(***************************************************************************)
(* C7, as amended: the suffix "@<name>" (followed by "(fallback:<idx>)"    *)
(* for a winner at idx > 0, by nothing for idx 0) ends the evidence        *)
(* exactly when more than one candidate is configured and the call was     *)
(* made from a candidate's bases, tie calls included; a WithinSpecies tag, *)
(* a Missing tag and the evidence of a single-candidate run carry none.    *)
(***************************************************************************)
Suffix(idx) ==
    "@" \o genomeNames[idx + 1]
    \o (IF idx > 0 THEN "(fallback:" \o ToString(idx) \o ")" ELSE "")

C7_SuffixOnCandidateCalls ==
    /\ pc = "found" =>
          /\ Contains(evidence, "@") <=> (Len(genomeNames) > 1 /\ FromCandidate)
          /\ Contains(evidence, "@") => EndsWith(evidence, Suffix(ancestorIdx))
          /\ Contains(evidence, "(fallback:") =>
                (Contains(evidence, "@") /\ ancestorIdx > 0)
    /\ \A k \in 1..Len(results) :
          (results[k] # <<>> /\ Contains(results[k][7], "@")) =>
              (Len(genomeNames) > 1 /\ ~StartsWith(results[k][7], "Missing")
               /\ ~StartsWith(results[k][7], "WithinSpecies"))

\* a tie of the second candidate carries the suffix
C7_Witness ==
    /\ FromCandidate
    /\ ancestorIdx = 1
    /\ evidence = "AncestralParalogTie:A=1,C=1@G2(fallback:1)"

\* C7 as stated: the suffix is on a candidate-derived non-tie tag only
C7_Original ==
    pc = "found" =>
        (Contains(evidence, "@") <=>
            /\ Len(genomeNames) > 1
            /\ FromCandidate
            /\ ~Contains(evidence, "Tie:"))

(***************************************************************************)
(* C8: the method tag of a candidate-derived call names the query step     *)
(* that produced the counted bases: the evidence begins with               *)
(* "AncestralParalog" exactly when the bases came from the                 *)
(* duplication-enabled query; total = 1 gives exactly "Direct" or          *)
(* "AncestralParalog" plus the suffix; a strict majority gives             *)
(* "MajorityVote:" or "AncestralParalogVote:"; a tie of step-1 bases is    *)
(* not labelled as a paralog result.                                       *)
(***************************************************************************)
BasesFromParalogQuery ==
    \E k \in EventsOf("paralog", ancestorIdx) : trace[k].taken # <<>>

C8_MethodTagNamesStep ==
    FromCandidate =>
        LET sfx == IF Len(genomeNames) > 1 THEN Suffix(ancestorIdx) ELSE ""
        IN  /\ StartsWith(evidence, "AncestralParalog") <=> BasesFromParalogQuery
            /\ CountedTotal(bases) = 1 =>
                  evidence = (IF BasesFromParalogQuery
                              THEN "AncestralParalog" ELSE "Direct") \o sfx
            /\ (CountedTotal(bases) > 1 /\ Cardinality(Tops(bases)) = 1) =>
                  evidence = (IF BasesFromParalogQuery
                              THEN "AncestralParalogVote:" ELSE "MajorityVote:")
                             \o Breakdown(bases) \o sfx

(***************************************************************************)
(* C5: whenever the bases are collected from the reference genome itself   *)
(* (the within-species search, or the reference genome as a candidate, by  *)
(* the direct or the paralog query), the base at the query position is     *)
(* never among the bases counted for the call.                             *)
(***************************************************************************)
C5_QueryPositionNotCounted ==
    pc = "found" =>
        \A k \in 1..Len(taken) :
            ~(taken[k].genome = RefName /\ taken[k].pos = absStart)

(***************************************************************************)
(* C4: a failing column query (direct, duplication-enabled or              *)
(* within-species) never aborts the batch: it counts as "no bases found"   *)
(* and the run still emits one row for every valid input position.         *)
(***************************************************************************)
RECURSIVE ValidLines(_)
ValidLines(ls) ==
    IF ls = <<>> THEN <<>>
    ELSE (IF Len(Head(ls)) >= 3 /\ ~StartsWith(Head(ls)[1], "#")
          THEN <<Head(ls)>> ELSE <<>>)
         \o ValidLines(Tail(ls))

C4_FailedQueryNeverAborts ==
    /\ pc = "exit" => Len(output) = Len(ValidLines(lines))
    /\ \A k \in 1..Len(trace) :
          (~trace[k].answer.ok /\ trace[k].kind # "count") => pc # "exit"

(***************************************************************************)
(* C1: whatever the noSort flag, the run emits exactly one row per valid   *)
(* position, and row i carries the chrom/start/end and the result of the   *)
(* i-th valid input position, also for positions with equal (chrom, start) *)
(* and for unsorted input.                                                 *)
(***************************************************************************)
ExpectedRow(line) ==
    <<line[1], ToString(line[2]), ToString(line[3])>>
    \o (IF line[1] \in SequenceNames
        THEN resolved[SequenceStart(line[1]) + line[2]]
        ELSE <<"N", genomeNames[1], "N", "Missing">>)

RowsInInputOrder ==
    /\ Len(output) = Len(ValidLines(lines))
    /\ \A k \in 1..Len(output) :
          /\ ValidLines(lines)[k][1] \in SequenceNames =>
                (SequenceStart(ValidLines(lines)[k][1]) + ValidLines(lines)[k][2])
                    \in DOMAIN resolved
          /\ output[k] = ExpectedRow(ValidLines(lines)[k])

C1_OneRowPerPositionInInputOrder == pc = "exit" => RowsInInputOrder

\* what the code does keep: a run that reaches the output loop writes the
\* rows in input order, sorted or not
CompletedRunInInputOrder == (pc = "exit" /\ exitCode = 0) => RowsInInputOrder

CompletedRunWitness ==
    /\ pc = "exit"
    /\ exitCode = 0
    /\ ~noSort
    /\ Len(output) = 2
    /\ output[1][1] = "chr2"
    /\ output[2][1] = "chr10"

====
